---------------------------- MODULE Spec2Model ----------------------------
(***************************************************************************)
(* A model of keylight_exporter's HTTP handler (handler.go).               *)
(*                                                                         *)
(*   - buildAddr / buildHostPort, with the parts of net.SplitHostPort,     *)
(*     net.JoinHostPort, url.Parse and URL.String they call,        *)
(*     computed character by character on sequences of one-character       *)
(*     strings;                                                            *)
(*   - scrapeDevice, the closure handed to metricslite's OnConstScrape;    *)
(*   - handler.ServeHTTP, one process per in-flight request, sharing the   *)
(*     handler's mutex and the registry's installed scrape function.       *)
(*                                                                         *)
(* Strings the address code inspects are sequences of characters over      *)
(* ASCII letters, digits and  : / ? # [ ] .  Targets carry no '%', no '@', *)
(* no blank and no control character; '%' appears only where               *)
(* URL.String escapes a host.                                       *)
(***************************************************************************)
EXTENDS Integers, Sequences, FiniteSets, TLC

VARIABLES
    \* ---- handler.ServeHTTP, per request slot ----
    pc,        \* position of each request in ServeHTTP
    target,    \* r.URL.Query().Get("target")
    addr,      \* result of buildAddr(target)
    data,      \* result of h.f.Fetch(ctx, addr)
    status,    \* HTTP status written (0: none yet)
    body,      \* observations rendered into the response body
    \* ---- handler, shared ----
    mu,        \* h.mu: 0 when unlocked, else the request holding it
    onScrape,  \* the scrape function installed in h.mm (the Data it closes over)
    gathered,  \* what the registry's last Gather produced (the last body rendered)
    \* ---- buildAddr taken alone ----
    aPhase, aTarget, aResult,
    \* ---- one pass of the scrape function taken alone ----
    sData, sTodo, sCalls

vars == <<pc, target, addr, data, status, body, mu, onScrape, gathered,
          aPhase, aTarget, aResult, sData, sTodo, sCalls>>

hVars == <<pc, target, addr, data, status, body, mu, onScrape, gathered>>
aVars == <<aPhase, aTarget, aResult>>
sVars == <<sData, sTodo, sCalls>>

---------------------------------------------------------------------------
(* Strings as character sequences.                                         *)

Str_http  == <<"h","t","t","p">>
Str_https == <<"h","t","t","p","s">>
Str_sftp  == <<"s","f","t","p">>
Str_HTTP  == <<"H","T","T","P">>
Str_sep   == <<":","/","/">>
Str_foo   == <<"f","o","o">>
Str_bar   == <<"b","a","r">>
Str_ip6   == <<"[",":",":","1","]">>

Digits == {"0","1","2","3","4","5","6","7","8","9"}
LowerSeq == <<"a","b","c","d","e","f","g","h","i","j","k","l","m",
              "n","o","p","q","r","s","t","u","v","w","x","y","z">>
UpperSeq == <<"A","B","C","D","E","F","G","H","I","J","K","L","M",
              "N","O","P","Q","R","S","T","U","V","W","X","Y","Z">>
Letters == {LowerSeq[i] : i \in 1..26} \cup {UpperSeq[i] : i \in 1..26}

\* keylightPort, as characters.
keylightPort == <<"9","1","2","3">>

\* s[i:] and s[:i] of Go, for a 0-based offset i.
From(s, i) == SubSeq(s, i + 1, Len(s))
Upto(s, i) == SubSeq(s, 1, i)

HasPrefix(s, p) == Len(s) >= Len(p) /\ SubSeq(s, 1, Len(p)) = p

\* The 0-based offsets at which sub occurs in s.
Occurrences(s, sub) ==
    {i \in 0..(Len(s) - Len(sub)) : SubSeq(s, i + 1, i + Len(sub)) = sub}

FirstOf(hits) == IF hits = {} THEN -1 ELSE CHOOSE i \in hits : \A j \in hits : i <= j
LastOf(hits)  == IF hits = {} THEN -1 ELSE CHOOSE i \in hits : \A j \in hits : i >= j

\* strings.Index, strings.LastIndex: a 0-based offset, or -1.
Index(s, sub)     == FirstOf(Occurrences(s, sub))
LastIndex(s, sub) == LastOf(Occurrences(s, sub))

\* strings.Contains.
Contains(s, sub) == Occurrences(s, sub) # {}

\* strings.Count for a one-character sub.
Count(s, c) == Cardinality({i \in 1..Len(s) : s[i] = c})

\* strings.ToLower on ASCII.
ToLower(s) ==
    IF s = <<>> THEN <<>> ELSE
    [i \in 1..Len(s) |->
        IF \E k \in 1..26 : UpperSeq[k] = s[i]
        THEN LowerSeq[CHOOSE k \in 1..26 : UpperSeq[k] = s[i]]
        ELSE s[i]]

---------------------------------------------------------------------------
(* net.SplitHostPort and net.JoinHostPort (called at handler.go 200, 211). *)

SplitErr == [err |-> TRUE, host |-> <<>>, port |-> <<>>]
SplitOK(host, port) == [err |-> FALSE, host |-> host, port |-> port]

\* The checks every address passes last: no '[' from offset j on, no ']' from
\* offset k on.
splitBrackets(hostport, j, k, host, port) ==
    IF Contains(From(hostport, j), <<"[">>) THEN SplitErr    \* unexpected '['
    ELSE IF Contains(From(hostport, k), <<"]">>) THEN SplitErr \* unexpected ']'
    ELSE SplitOK(host, port)

\* SplitHostPort with i the offset of the last ':' (i >= 0) and end that of
\* the first ']'.
splitAt(hostport, i, end) ==
    IF hostport[1] = "["
    THEN IF end < 0 THEN SplitErr                         \* missing ']' in address
         ELSE IF end + 1 = Len(hostport) THEN SplitErr    \* missing port
         ELSE IF end + 1 # i THEN SplitErr     \* too many colons, or missing port
         ELSE splitBrackets(hostport, 1, end + 1,
                            SubSeq(hostport, 2, end), From(hostport, i + 1))
    ELSE IF Contains(Upto(hostport, i), <<":">>) THEN SplitErr  \* too many colons
         ELSE splitBrackets(hostport, 0, 0, Upto(hostport, i), From(hostport, i + 1))

SplitHostPort(hostport) ==
    IF ~Contains(hostport, <<":">>) THEN SplitErr           \* missing port in address
    ELSE splitAt(hostport, LastIndex(hostport, <<":">>), Index(hostport, <<"]">>))

JoinHostPort(host, port) ==
    IF Contains(host, <<":">>) \/ Contains(host, <<"%">>)
    THEN <<"[">> \o host \o <<"]", ":">> \o port
    ELSE host \o <<":">> \o port

---------------------------------------------------------------------------
(* net/url: Parse and URL.String (called at handler.go 179, 194, 209).     *)

URL(scheme, opaque, host, path, rawQuery, forceQuery, fragment) ==
    [err |-> FALSE, Scheme |-> scheme, Opaque |-> opaque, Host |-> host,
     Path |-> path, RawQuery |-> rawQuery, ForceQuery |-> forceQuery,
     Fragment |-> fragment]

ParseErr ==
    [err |-> TRUE, Scheme |-> <<>>, Opaque |-> <<>>, Host |-> <<>>,
     Path |-> <<>>, RawQuery |-> <<>>, ForceQuery |-> FALSE, Fragment |-> <<>>]

\* url.split(s, c, cutc) with i the offset strings.Index(s, c) found.
splitOn(s, i, cutc) ==
    IF i < 0 THEN <<s, <<>>>>
    ELSE IF cutc THEN <<Upto(s, i), From(s, i + 1)>>
    ELSE <<Upto(s, i), From(s, i)>>

\* url.split(s, c, cutc) for a one-character c.
split(s, c, cutc) == splitOn(s, Index(s, <<c>>), cutc)

\* url.getscheme: scan for the first character that decides.
RECURSIVE getschemeAt(_, _)
getschemeAt(rawurl, i) ==
    IF i > Len(rawurl)
    THEN [err |-> FALSE, scheme |-> <<>>, rest |-> rawurl]
    ELSE IF rawurl[i] \in Letters THEN getschemeAt(rawurl, i + 1)
    ELSE IF rawurl[i] \in Digits \cup {"+", "-", "."}
    THEN IF i = 1
         THEN [err |-> FALSE, scheme |-> <<>>, rest |-> rawurl]
         ELSE getschemeAt(rawurl, i + 1)
    ELSE IF rawurl[i] = ":"
    THEN IF i = 1
         THEN [err |-> TRUE, scheme |-> <<>>, rest |-> <<>>] \* missing protocol scheme
         ELSE [err |-> FALSE, scheme |-> Upto(rawurl, i - 1), rest |-> From(rawurl, i)]
    ELSE [err |-> FALSE, scheme |-> <<>>, rest |-> rawurl]

getscheme(rawurl) == getschemeAt(rawurl, 1)

\* url.validOptionalPort.
validOptionalPort(port) ==
    \/ port = <<>>
    \/ /\ port[1] = ":"
       /\ \A i \in 2..Len(port) : port[i] \in Digits

HexDigits == Digits \cup {"a","b","c","d","e","f","A","B","C","D","E","F"}

\* url.shouldEscape(c, encodeHost), on the characters of the model.
shouldEscapeHost(c) ==
    ~(c \in Letters \cup Digits \cup {":", "[", "]", "-", "_", ".", "~"})

\* url.unescape(host, encodeHost) succeeds: every '%' starts a valid escape of a
\* byte >= 0x80, and no other character needs escaping in a host.  Nothing
\* is decoded on success here: the only escapes URL.String writes for the
\* model's characters are of bytes below 0x80, which are refused.
hostUnescapes(host) ==
    \A i \in 1..Len(host) :
        IF host[i] = "%"
        THEN /\ i + 2 <= Len(host)
             /\ host[i + 1] \in HexDigits
             /\ host[i + 2] \in HexDigits
             /\ ~(host[i + 1] \in {"0","1","2","3","4","5","6","7"})
        ELSE ~shouldEscapeHost(host[i])

\* url.parseHost succeeds.
parseHostOK(host) ==
    /\ IF HasPrefix(host, <<"[">>)
       THEN /\ Contains(host, <<"]">>)                      \* else: missing ']' in host
            /\ validOptionalPort(From(host, LastIndex(host, <<"]">>) + 1))
       ELSE Contains(host, <<":">>)
                => validOptionalPort(From(host, LastIndex(host, <<":">>)))
    /\ hostUnescapes(host)

\* url.parse from the authority on: as is <<authority, rest>>.
parseAuthority(scheme, as, query, force) ==
    IF parseHostOK(as[1])
    THEN URL(scheme, <<>>, as[1], as[2], query, force, <<>>)
    ELSE ParseErr

\* url.parse once the scheme and the query are cut off.
parseRest(scheme, rest, query, force) ==
    IF ~HasPrefix(rest, <<"/">>) /\ scheme # <<>>
    THEN URL(scheme, rest, <<>>, <<>>, query, force, <<>>)  \* rootless: opaque
    ELSE IF /\ ~HasPrefix(rest, <<"/">>)
            /\ Contains(rest, <<":">>)
            /\ (~Contains(rest, <<"/">>) \/ Index(rest, <<":">>) < Index(rest, <<"/">>))
    THEN ParseErr                    \* first path segment cannot contain colon
    ELSE IF /\ (scheme # <<>> \/ ~HasPrefix(rest, <<"/","/","/">>))
            /\ HasPrefix(rest, <<"/","/">>)
    THEN parseAuthority(scheme, split(From(rest, 2), "/", FALSE), query, force)
    ELSE URL(scheme, <<>>, <<>>, rest, query, force, <<>>)

\* url.parse once the scheme is cut off: a lone trailing '?' forces an empty
\* query, else the query starts after the first '?'.
parseQuery(scheme, rest) ==
    IF rest # <<>> /\ rest[Len(rest)] = "?" /\ Count(rest, "?") = 1
    THEN parseRest(scheme, Upto(rest, Len(rest) - 1), <<>>, TRUE)
    ELSE parseRest(scheme, Upto(rest, IF Contains(rest, <<"?">>)
                                      THEN Index(rest, <<"?">>) ELSE Len(rest)),
                   split(rest, "?", TRUE)[2], FALSE)

\* url.parse with gs the result of getscheme.
parseScheme(gs) ==
    IF gs.err THEN ParseErr ELSE parseQuery(ToLower(gs.scheme), gs.rest)

\* url.parse(rawurl, false), for a rawurl without '#'.
parse(rawurl) == parseScheme(getscheme(rawurl))

setFragment(u, frag) == IF u.err THEN ParseErr ELSE [u EXCEPT !.Fragment = frag]

\* url.Parse: cut the fragment off, parse the rest.
Parse(rawurl) ==
    setFragment(parse(split(rawurl, "#", TRUE)[1]), split(rawurl, "#", TRUE)[2])

\* The %XX escape URL.String writes for a character it must escape.
pctEncode(c) ==
    CASE c = "/" -> <<"%","2","F">>
      [] c = "?" -> <<"%","3","F">>
      [] c = "#" -> <<"%","2","3">>
      [] c = "[" -> <<"%","5","B">>
      [] c = "]" -> <<"%","5","D">>
      [] c = "%" -> <<"%","2","5">>
      [] OTHER   -> <<c>>

RECURSIVE escapeHost(_)
escapeHost(s) ==
    IF s = <<>> THEN <<>>
    ELSE (IF shouldEscapeHost(s[1]) THEN pctEncode(s[1]) ELSE <<s[1]>>)
         \o escapeHost(Tail(s))

\* url.shouldEscape(c, encodeFragment), on the characters of the model.
shouldEscapeFragment(c) == c \in {"#", "[", "]", "%"}

RECURSIVE escapeFragment(_)
escapeFragment(s) ==
    IF s = <<>> THEN <<>>
    ELSE (IF shouldEscapeFragment(s[1]) THEN pctEncode(s[1]) ELSE <<s[1]>>)
         \o escapeFragment(Tail(s))

\* URL.String.  Both call sites print a URL whose Path is empty, so the path
\* is written as it stands.
URLString(u) ==
    (IF u.Scheme # <<>> THEN u.Scheme \o <<":">> ELSE <<>>)
    \o (IF u.Opaque # <<>> THEN u.Opaque
        ELSE (IF (u.Scheme # <<>> \/ u.Host # <<>>) /\ (u.Host # <<>> \/ u.Path # <<>>)
              THEN <<"/","/">> ELSE <<>>)
             \o (IF u.Scheme # <<>> \/ u.Host # <<>> THEN escapeHost(u.Host) ELSE <<>>)
             \o (IF u.Path # <<>> /\ u.Path[1] # "/" /\ u.Host # <<>>
                 THEN <<"/">> ELSE <<>>)
             \o u.Path)
    \o (IF u.ForceQuery \/ u.RawQuery # <<>> THEN <<"?">> \o u.RawQuery ELSE <<>>)
    \o (IF u.Fragment # <<>> THEN <<"#">> \o escapeFragment(u.Fragment) ELSE <<>>)

---------------------------------------------------------------------------
(* buildAddr and buildHostPort (handler.go 172-215).                       *)

AddrErr == [err |-> TRUE, val |-> <<>>]
AddrOK(s) == [err |-> FALSE, val |-> s]

\* Trim trailing slash for consistency.
trimSlash(u) == IF ~u.err /\ u.Path = <<"/">> THEN [u EXCEPT !.Path = <<>>] ELSE u

\* Only allow HTTP(S) with non-empty host and empty path.
checkURL(u) ==
    IF u.err THEN AddrErr
    ELSE IF \/ (u.Scheme # Str_http /\ u.Scheme # Str_https)
            \/ u.Host = <<>>
            \/ u.Path # <<>>
    THEN AddrErr
    ELSE AddrOK(URLString(u))

\* buildAddr on a string that contains "://".
buildAddrURL(s) == checkURL(trimSlash(Parse(s)))

\* The URL buildHostPort prints from what SplitHostPort made of s.
joinURL(s, sp) ==
    URLString(URL(Str_http, <<>>,
                  JoinHostPort(IF sp.err THEN s ELSE sp.host,
                               IF sp.err THEN keylightPort ELSE sp.port),
                  <<>>, <<>>, FALSE, <<>>))

\* The string buildHostPort builds before it verifies it again.
hostPortURL(s) == joinURL(s, SplitHostPort(s))

\* The mutant of buildHostPort: the string is returned without being verified.
buildHostPort_unverified(s) == AddrOK(hostPortURL(s))

RECURSIVE buildAddr(_)

\* buildHostPort: assume HTTP and verify the URL again through buildAddr.
buildHostPort(s) == buildAddr(hostPortURL(s))

buildAddr(s) ==
    IF ~Contains(s, Str_sep) THEN buildHostPort(s) ELSE buildAddrURL(s)

---------------------------------------------------------------------------
(* buildAddr taken alone: ServeHTTP's lines 141-151 for one target.        *)

SchemeParts ==
    {<<>>, Str_http \o Str_sep, Str_https \o Str_sep, Str_sftp \o Str_sep,
     Str_HTTP \o Str_sep, Str_sep, Str_http \o <<":">>}
HostParts  == {<<>>, Str_foo, Str_ip6, <<":",":","1">>}
PortParts  == {<<>>, <<":">>, <<":">> \o keylightPort, <<":">> \o Str_bar, <<":","8","0">>}
PathParts  == {<<>>, <<"/">>, <<"/">> \o Str_bar}
QueryParts == {<<>>, <<"?">>, <<"?","q">>}
FragParts  == {<<>>, <<"#","f">>}

\* The targets buildAddr is run on: every concatenation of one part of each kind.
AddrTargets ==
    {s \o h \o p \o pa \o q \o f :
        s \in SchemeParts, h \in HostParts, p \in PortParts,
        pa \in PathParts, q \in QueryParts, f \in FragParts}

AddrInit ==
    /\ aPhase = "target"
    /\ aTarget \in AddrTargets \ {<<>>}
    /\ aResult = AddrErr

\* addr, err := buildAddr(target); on error respond 400, else call Fetch(ctx, addr).
BuildAddr ==
    /\ aPhase = "target"
    /\ aResult' = buildAddr(aTarget)
    /\ aPhase' = IF aResult'.err THEN "badrequest" ELSE "fetch"
    /\ UNCHANGED <<aTarget, hVars, sVars>>

---------------------------------------------------------------------------
(* Fetched data (type Data, handler.go 96-100) and the metric schema.      *)

\* Prometheus metric names.
klInfo                   == "keylight_info"
klLightOn                == "keylight_light_on"
klLightBrightnessPercent == "keylight_light_brightness_percent"
klLightTemperatureKelvin == "keylight_light_temperature_kelvin"

\* The names NewHandler registers with mm.ConstGauge: the keys of the map the
\* registry hands to the scrape function.
Schema == {klInfo, klLightOn, klLightBrightnessPercent, klLightTemperatureKelvin}

Device(name, firmware, serial) ==
    [nil |-> FALSE, DisplayName |-> name, FirmwareVersion |-> firmware,
     SerialNumber |-> serial]
NilDevice ==
    [nil |-> TRUE, DisplayName |-> "", FirmwareVersion |-> "", SerialNumber |-> ""]

Light(on, brightness, temperature) ==
    [On |-> on, Brightness |-> brightness, Temperature |-> temperature]

Data(device, lights) == [nil |-> FALSE, Device |-> device, Lights |-> lights]
\* d before Fetch has returned.
NoData == [nil |-> TRUE, Device |-> NilDevice, Lights |-> <<>>]

---------------------------------------------------------------------------
(* scrapeDevice (handler.go 217-248) and boolFloat (250-257).              *)

boolFloat(b) == IF b THEN 1 ELSE 0

\* One call c(value, labels...) of a gauge's function.
Call(name, value, labels) == [name |-> name, value |-> value, labels |-> labels]

\* fmt.Sprintf("light%d", i), i the zero-based position.
lightLabel(i) == "light" \o ToString(i)

\* The mutant of lightCalls: lights numbered from one.
lightCalls_fromOne(d, name, serial) ==
    [i \in 1..Len(d.Lights) |->
        Call(name,
             CASE name = klLightOn -> boolFloat(d.Lights[i].On)
               [] name = klLightBrightnessPercent -> d.Lights[i].Brightness
               [] name = klLightTemperatureKelvin -> d.Lights[i].Temperature,
             <<lightLabel(i), serial>>)]

\* The inner loop over d.Lights for one per-light gauge: the calls it makes,
\* in order.  Position i of the TLA+ sequence is Go's index i - 1.
lightCalls(d, name, serial) ==
    [i \in 1..Len(d.Lights) |->
        Call(name,
             CASE name = klLightOn -> boolFloat(d.Lights[i].On)
               [] name = klLightBrightnessPercent -> d.Lights[i].Brightness
               [] name = klLightTemperatureKelvin -> d.Lights[i].Temperature,
             <<lightLabel(i - 1), serial>>)]

\* The scrape function panics on a name outside its switch.
scrapePanics(name) ==
    name \notin {klInfo, klLightOn, klLightBrightnessPercent, klLightTemperatureKelvin}

\* The body of the scrape function's loop for one map entry: the calls made
\* on that gauge's function.
scrapeName(d, name) ==
    LET serial == d.Device.SerialNumber
    IN  IF name = klInfo
        THEN <<Call(name, 1, <<d.Device.FirmwareVersion, d.Device.DisplayName, serial>>)>>
        ELSE IF name \in {klLightOn, klLightBrightnessPercent, klLightTemperatureKelvin}
        THEN IF d.Lights = <<>> THEN <<>> ELSE lightCalls(d, name, serial)
        ELSE <<>>

Range(f) == {f[i] : i \in DOMAIN f}

\* Every gauge's calls for one pass over the map, as the set of samples the
\* registry collects (the order of the map's iteration does not show in it).
scrapeDevice(d) == UNION {Range(scrapeName(d, name)) : name \in Schema}

---------------------------------------------------------------------------
(* One pass of the scrape function taken alone: the map is ranged over in  *)
(* an order the runtime picks.                                             *)

MaxLights == 2

LightStates == {Light(TRUE, 20, 4200), Light(FALSE, 0, 0), Light(FALSE, 20, 4200)}
DeviceStates == {Device("test", "1.0.0", "1111"), Device("desk", "1.1.0", "2222")}

LightSeqs == UNION {[1..n -> LightStates] : n \in 0..MaxLights}

ScrapeInit ==
    /\ sData \in {Data(dev, ls) : dev \in DeviceStates, ls \in LightSeqs}
    /\ sTodo = Schema
    /\ sCalls = <<>>

\* One iteration of "for name, c := range metrics".
ScrapeVisit ==
    \E name \in sTodo :
        /\ ~scrapePanics(name)
        /\ sCalls' = sCalls \o scrapeName(sData, name)
        /\ sTodo' = sTodo \ {name}
        /\ UNCHANGED <<sData, hVars, aVars>>

---------------------------------------------------------------------------
(* handler.ServeHTTP (handler.go 129-170).                                 *)

NumReq == 2
Reqs == 1..NumReq

StatusOK                  == 200
StatusBadRequest          == 400
StatusInternalServerError == 500

\* What the test's fetcher returns, and a second device with no light.
TestData  == Data(Device("test", "1.0.0", "1111"),
                  <<Light(TRUE, 20, 4200), Light(FALSE, 0, 0)>>)
BareData  == Data(Device("bare", "1.0.0", "3333"), <<>>)
FetchData == {TestData, BareData}

\* A Fetcher's result whose Device is nil.
NilDeviceData == Data(NilDevice, <<>>)

\* The targets requests carry: none, host, host:badport, URL with a slash.
HandlerTargets ==
    {<<>>, Str_foo, Str_foo \o <<":">> \o Str_bar,
     Str_http \o Str_sep \o Str_foo \o <<":">> \o keylightPort \o <<"/">>}

HandlerInit ==
    /\ pc = [r \in Reqs |-> "idle"]
    /\ target = [r \in Reqs |-> <<>>]
    /\ addr = [r \in Reqs |-> <<>>]
    /\ data = [r \in Reqs |-> NoData]
    /\ status = [r \in Reqs |-> 0]
    /\ body = [r \in Reqs |-> {}]
    /\ mu = 0
    /\ onScrape = NoData
    /\ gathered = {}

\* A request arrives: target := r.URL.Query().Get("target").
Arrive(r) ==
    /\ pc[r] = "idle"
    /\ \E t \in HandlerTargets : target' = [target EXCEPT ![r] = t]
    /\ pc' = [pc EXCEPT ![r] = "start"]
    /\ UNCHANGED <<addr, data, status, body, mu, onScrape, gathered, aVars, sVars>>

\* The mutant of MissingTarget: the empty target is not checked and goes on to
\* buildAddr like any other.
MissingTarget_unchecked(r) ==
    /\ pc[r] = "start"
    /\ target[r] = <<>>
    /\ LET a == buildAddr(target[r])
       IN  IF a.err
           THEN /\ status' = [status EXCEPT ![r] = StatusBadRequest]
                /\ pc' = [pc EXCEPT ![r] = "done"]
                /\ UNCHANGED addr
           ELSE /\ addr' = [addr EXCEPT ![r] = a.val]
                /\ pc' = [pc EXCEPT ![r] = "fetching"]
                /\ UNCHANGED status
    /\ UNCHANGED <<target, data, body, mu, onScrape, gathered, aVars, sVars>>

\* if target == "": 400 "missing target parameter".
MissingTarget(r) ==
    /\ pc[r] = "start"
    /\ target[r] = <<>>
    /\ status' = [status EXCEPT ![r] = StatusBadRequest]
    /\ pc' = [pc EXCEPT ![r] = "done"]
    /\ UNCHANGED <<target, addr, data, body, mu, onScrape, gathered, aVars, sVars>>

\* buildAddr(target) fails: 400 "malformed target parameter".
MalformedTarget(r) ==
    /\ pc[r] = "start"
    /\ target[r] # <<>>
    /\ buildAddr(target[r]).err
    /\ status' = [status EXCEPT ![r] = StatusBadRequest]
    /\ pc' = [pc EXCEPT ![r] = "done"]
    /\ UNCHANGED <<target, addr, data, body, mu, onScrape, gathered, aVars, sVars>>

\* The mutant of CallFetch: the mutex is taken before the call to Fetch.
CallFetch_locked(r) ==
    /\ pc[r] = "start"
    /\ target[r] # <<>>
    /\ ~buildAddr(target[r]).err
    /\ mu = 0
    /\ mu' = r
    /\ addr' = [addr EXCEPT ![r] = buildAddr(target[r]).val]
    /\ pc' = [pc EXCEPT ![r] = "fetching"]
    /\ UNCHANGED <<target, data, status, body, onScrape, gathered, aVars, sVars>>

\* buildAddr(target) succeeds: h.f.Fetch(ctx, addr) is called.
CallFetch(r) ==
    /\ pc[r] = "start"
    /\ target[r] # <<>>
    /\ ~buildAddr(target[r]).err
    /\ addr' = [addr EXCEPT ![r] = buildAddr(target[r]).val]
    /\ pc' = [pc EXCEPT ![r] = "fetching"]
    /\ UNCHANGED <<target, data, status, body, mu, onScrape, gathered, aVars, sVars>>

\* Fetch returns data and no error.
FetchOK(r) ==
    /\ pc[r] = "fetching"
    /\ \E d \in FetchData : data' = [data EXCEPT ![r] = d]
    /\ pc' = [pc EXCEPT ![r] = "fetched"]
    /\ UNCHANGED <<target, addr, status, body, mu, onScrape, gathered, aVars, sVars>>

\* Fetch returns an error (the 5 s deadline included): 500.
FetchErr(r) ==
    /\ pc[r] = "fetching"
    /\ status' = [status EXCEPT ![r] = StatusInternalServerError]
    /\ pc' = [pc EXCEPT ![r] = "done"]
    /\ UNCHANGED <<target, addr, data, body, mu, onScrape, gathered, aVars, sVars>>

\* A Fetcher returns data whose Device is nil, and no error.
FetchNilDevice(r) ==
    /\ pc[r] = "fetching"
    /\ data' = [data EXCEPT ![r] = NilDeviceData]
    /\ pc' = [pc EXCEPT ![r] = "fetched"]
    /\ UNCHANGED <<target, addr, status, body, mu, onScrape, gathered, aVars, sVars>>

\* The mutant of Lock: the lock excludes nobody.
Lock_shared(r) ==
    /\ pc[r] = "fetched"
    /\ mu' = r
    /\ pc' = [pc EXCEPT ![r] = "locked"]
    /\ UNCHANGED <<target, addr, data, status, body, onScrape, gathered, aVars, sVars>>

\* h.mu.Lock(); defer h.mu.Unlock().
Lock(r) ==
    /\ pc[r] = "fetched"
    /\ mu = 0
    /\ mu' = r
    /\ pc' = [pc EXCEPT ![r] = "locked"]
    /\ UNCHANGED <<target, addr, data, status, body, onScrape, gathered, aVars, sVars>>

\* h.mm.OnConstScrape(scrapeDevice(d)): the closure over d is installed.
OnConstScrape(r) ==
    /\ pc[r] = "locked"
    /\ ~data[r].Device.nil
    /\ onScrape' = data[r]
    /\ pc' = [pc EXCEPT ![r] = "installed"]
    /\ UNCHANGED <<target, addr, data, status, body, mu, gathered, aVars, sVars>>

\* scrapeDevice(d) reads d.Device.SerialNumber of a nil Device: the request
\* panics, and its deferred calls run.
ScrapePanic(r) ==
    /\ pc[r] = "locked"
    /\ data[r].Device.nil
    /\ pc' = [pc EXCEPT ![r] = "panicking"]
    /\ UNCHANGED <<target, addr, data, status, body, mu, onScrape, gathered, aVars, sVars>>

\* The mutant of Render: gauges keep the samples of the scrape before.
Render_accumulating(r) ==
    /\ pc[r] = "installed"
    /\ gathered' = gathered \cup scrapeDevice(onScrape)
    /\ body' = [body EXCEPT ![r] = gathered']
    /\ status' = [status EXCEPT ![r] = StatusOK]
    /\ pc' = [pc EXCEPT ![r] = "rendered"]
    /\ UNCHANGED <<target, addr, data, mu, onScrape, aVars, sVars>>

\* h.metrics.ServeHTTP(w, r): the registry gathers, which runs the installed
\* scrape function over the schema, and the samples are written with a 200.
Render(r) ==
    /\ pc[r] = "installed"
    /\ gathered' = scrapeDevice(onScrape)
    /\ body' = [body EXCEPT ![r] = gathered']
    /\ status' = [status EXCEPT ![r] = StatusOK]
    /\ pc' = [pc EXCEPT ![r] = "rendered"]
    /\ UNCHANGED <<target, addr, data, mu, onScrape, aVars, sVars>>

\* The mutant of Unlock: the unlock is not deferred, so a panic skips it.
Unlock_notDeferred(r) ==
    /\ pc[r] \in {"rendered", "panicking"}
    /\ mu' = IF pc[r] = "rendered" THEN 0 ELSE mu
    /\ pc' = [pc EXCEPT ![r] = "done"]
    /\ UNCHANGED <<target, addr, data, status, body, onScrape, gathered, aVars, sVars>>

\* The deferred h.mu.Unlock(), on return and on panic alike.
Unlock(r) ==
    /\ pc[r] \in {"rendered", "panicking"}
    /\ mu' = 0
    /\ pc' = [pc EXCEPT ![r] = "done"]
    /\ UNCHANGED <<target, addr, data, status, body, onScrape, gathered, aVars, sVars>>

\* The response is with the client; the slot serves the next request.
Finish(r) ==
    /\ pc[r] = "done"
    /\ pc' = [pc EXCEPT ![r] = "idle"]
    /\ target' = [target EXCEPT ![r] = <<>>]
    /\ addr' = [addr EXCEPT ![r] = <<>>]
    /\ data' = [data EXCEPT ![r] = NoData]
    /\ status' = [status EXCEPT ![r] = 0]
    /\ body' = [body EXCEPT ![r] = {}]
    /\ UNCHANGED <<mu, onScrape, gathered, aVars, sVars>>

---------------------------------------------------------------------------
(* Specifications.                                                         *)

\* The parts of the state a specification leaves alone.
AddrIdle   == aPhase = "off" /\ aTarget = <<>> /\ aResult = AddrErr
ScrapeIdle == sData = NoData /\ sTodo = {} /\ sCalls = <<>>

\* Requests served by one handler whose Fetcher returns well-formed data.
Init == HandlerInit /\ AddrIdle /\ ScrapeIdle

Next ==
    \E r \in Reqs :
        \/ Arrive(r)
        \/ MissingTarget(r)
        \/ MalformedTarget(r)
        \/ CallFetch(r)
        \/ FetchOK(r)
        \/ FetchErr(r)
        \/ Lock(r)
        \/ OnConstScrape(r)
        \/ Render(r)
        \/ Unlock(r)
        \/ Finish(r)

Spec == Init /\ [][Next]_vars

\* The same handler with a Fetcher that may also return a nil Device, under
\* the scheduling Go gives a request past Fetch: sync.Mutex hands the lock to
\* a goroutine that keeps waiting for it (its starvation mode: SF), and a
\* goroutine holding the lock takes its next step, the calls into the
\* registry returning (WF).  Nothing is assumed of clients or of Fetch.
NextPanic ==
    \/ Next
    \/ \E r \in Reqs : FetchNilDevice(r)
    \/ \E r \in Reqs : ScrapePanic(r)

Fairness ==
    \A r \in Reqs :
        /\ SF_vars(Lock(r))
        /\ WF_vars(OnConstScrape(r) \/ ScrapePanic(r) \/ Render(r) \/ Unlock(r))

FairSpec == Init /\ [][NextPanic]_vars /\ Fairness

\* buildAddr on every target of AddrTargets.
InitAddr == HandlerInit /\ AddrInit /\ ScrapeIdle
SpecAddr == InitAddr /\ [][BuildAddr]_vars

\* The scrape function on every Data of at most MaxLights lights.
InitScrape == HandlerInit /\ AddrIdle /\ ScrapeInit
SpecScrape == InitScrape /\ [][ScrapeVisit]_vars

---------------------------------------------------------------------------
(* Properties.                                                             *)

\* The serial label of a sample: the last label of every gauge of the schema.
SerialOf(o) == o.labels[Len(o.labels)]

\* The label the light at zero-based position i must carry.
LightNames == <<"light0", "light1", "light2", "light3">>

InCritical(r) == pc[r] \in {"locked", "installed", "rendered", "panicking"}

\* C1: requests served concurrently by one handler never mix snapshots: at
\* most one request at a time is between taking the lock and finishing its
\* body, and every sample of a 200 body carries the serial number of the
\* device that same request fetched.
C1_BodiesNeverMix ==
    /\ \A r1, r2 \in Reqs : InCritical(r1) /\ InCritical(r2) => r1 = r2
    /\ \A r \in Reqs :
          status[r] = StatusOK =>
              \A o \in body[r] : SerialOf(o) = data[r].Device.SerialNumber

\* A request has rendered its body while another, which fetched a different
\* device, waits for the lock.
C1_Witness ==
    \E r1, r2 \in Reqs :
        /\ pc[r1] = "rendered" /\ body[r1] # {}
        /\ pc[r2] = "fetched"
        /\ data[r1].Device.SerialNumber # data[r2].Device.SerialNumber

\* C2: the mutex is never held across Fetch: a request whose Fetch is
\* outstanding does not hold it, its holder is always a request whose Fetch
\* returned data, and when no request is past Lock the mutex is free, so
\* requests blocked in Fetch keep nobody out of the critical section.
C2_NoLockAcrossFetch ==
    /\ \A r \in Reqs : pc[r] \in {"start", "fetching", "fetched"} => mu # r
    /\ mu # 0 => InCritical(mu) /\ ~data[mu].nil
    /\ (\A r \in Reqs : ~InCritical(r)) => mu = 0

\* A request is in the critical section while another is still in Fetch.
C2_Witness ==
    \E r1, r2 \in Reqs : pc[r1] = "fetching" /\ pc[r2] = "locked" /\ mu = r2

\* The status the first applicable branch gives a finished request.
OutcomeOf(r) ==
    IF target[r] = <<>> THEN StatusBadRequest
    ELSE IF buildAddr(target[r]).err THEN StatusBadRequest
    ELSE IF data[r].nil THEN StatusInternalServerError
    ELSE StatusOK

\* C3: every finished request has exactly the status of the first applicable
\* branch (no target: 400; target rejected: 400; Fetch failed: 500; else 200),
\* and no later step was taken once a branch applied: a 400 never called
\* Fetch, a 400 or a 500 rendered nothing.
C3_FirstBranchDecides ==
    \A r \in Reqs :
        /\ status[r] \in {0, StatusOK, StatusBadRequest, StatusInternalServerError}
        /\ pc[r] = "done" =>
              /\ status[r] = OutcomeOf(r)
              /\ status[r] = StatusBadRequest => addr[r] = <<>> /\ data[r].nil
              /\ status[r] # StatusOK => body[r] = {}
              /\ status[r] = StatusOK => body[r] # {}

\* One request finished with 500 and another with the 400 of a rejected target.
C3_Witness ==
    \E r1, r2 \in Reqs :
        /\ pc[r1] = "done" /\ status[r1] = StatusInternalServerError
        /\ pc[r2] = "done" /\ status[r2] = StatusBadRequest /\ target[r2] # <<>>

Str_fooPort   == Str_foo \o <<":">> \o keylightPort
Str_httpFoo   == Str_http \o Str_sep \o Str_fooPort
Str_httpsFoo  == Str_https \o Str_sep \o Str_fooPort

\* C4: buildAddr agrees with the table of edge cases: "foo", "foo:9123",
\* "http://foo:9123/" and "http://foo:9123" give "http://foo:9123",
\* "https://foo:9123" is returned as it is, and "sftp://foo", "http://",
\* "foo:bar" and "http://foo/bar" give an error.
C4_EdgeCaseTable ==
    aPhase \in {"fetch", "badrequest"} =>
        /\ aTarget \in {Str_foo, Str_fooPort, Str_httpFoo \o <<"/">>, Str_httpFoo}
              => aResult = AddrOK(Str_httpFoo) /\ aPhase = "fetch"
        /\ aTarget = Str_httpsFoo => aResult = AddrOK(Str_httpsFoo) /\ aPhase = "fetch"
        /\ aTarget \in {Str_sftp \o Str_sep \o Str_foo,
                        Str_http \o Str_sep,
                        Str_foo \o <<":">> \o Str_bar,
                        Str_http \o Str_sep \o Str_foo \o <<"/">> \o Str_bar}
              => aResult.err /\ aPhase = "badrequest"

\* buildAddr has rejected "foo:bar".
C4_Witness ==
    /\ aPhase = "badrequest"
    /\ aTarget = Str_foo \o <<":">> \o Str_bar
    /\ aResult.err

\* url.URL.Port: the port of a host[:port] string, empty when it has none.
PortOf(hostport) ==
    IF ~Contains(hostport, <<":">>) THEN <<>>
    ELSE IF Contains(hostport, <<"]", ":">>)
    THEN From(hostport, Index(hostport, <<"]", ":">>) + 2)
    ELSE IF Contains(hostport, <<"]">>) THEN <<>>
    ELSE From(hostport, Index(hostport, <<":">>) + 1)

\* The host[:port] of an endpoint scheme://host[:port]...: what follows "://"
\* up to the first of / ? #.
AuthorityOf(s) ==
    LET rest == From(s, Index(s, Str_sep) + 3)
        stops == {i \in 1..Len(rest) : rest[i] \in {"/", "?", "#"}}
    IN  IF stops = {} THEN rest
        ELSE Upto(rest, (CHOOSE i \in stops : \A j \in stops : i <= j) - 1)

\* The port a target names, with or without a scheme.
TargetPort(t) ==
    IF Contains(t, Str_sep) THEN PortOf(AuthorityOf(t))
    ELSE IF SplitHostPort(t).err THEN <<>> ELSE SplitHostPort(t).port

\* C7: every endpoint passed to Fetch has a host with a port, and the port is
\* 9123 when the target named none.
C7_DefaultPortApplied ==
    aPhase = "fetch" =>
        /\ PortOf(AuthorityOf(aResult.val)) # <<>>
        /\ TargetPort(aTarget) = <<>> => PortOf(AuthorityOf(aResult.val)) = keylightPort

CallsOn(name) == SelectSeq(sCalls, LAMBDA c : c.name = name)

\* C6: once a gauge has been visited its calls are complete: device info has
\* exactly one call, of value 1 with labels firmware, name, serial; each
\* per-light gauge has exactly one call per light, the call for the light at
\* zero-based position i labelled light<i> with the device's serial number and
\* carrying that light's value, whatever it is; with no light there is none.
C6_OnePassPerSnapshot ==
    /\ klInfo \notin sTodo /\ ~sData.nil =>
          CallsOn(klInfo) =
              <<[name |-> "keylight_info", value |-> 1,
                 labels |-> <<sData.Device.FirmwareVersion, sData.Device.DisplayName,
                              sData.Device.SerialNumber>>]>>
    /\ \A g \in {klLightOn, klLightBrightnessPercent, klLightTemperatureKelvin} :
          g \notin sTodo /\ ~sData.nil =>
              /\ Len(CallsOn(g)) = Len(sData.Lights)
              /\ \A i \in 1..Len(sData.Lights) :
                    /\ CallsOn(g)[i].labels = <<LightNames[i], sData.Device.SerialNumber>>
                    /\ CallsOn(g)[i].value =
                          IF g = klLightOn
                          THEN (IF sData.Lights[i].On THEN 1 ELSE 0)
                          ELSE IF g = klLightBrightnessPercent
                          THEN sData.Lights[i].Brightness
                          ELSE sData.Lights[i].Temperature
    /\ Len(sCalls) = Cardinality((Schema \ sTodo) \ {klInfo}) * Len(sData.Lights)
                     + (IF klInfo \in sTodo \/ sData.nil THEN 0 ELSE 1)

\* A pass is complete over a device with two lights whose first is off with
\* every field zero.
C6_Witness ==
    /\ ~sData.nil
    /\ sTodo = {}
    /\ Len(sData.Lights) = 2
    /\ sData.Lights[1] = Light(FALSE, 0, 0)
    /\ Len(sCalls) = 7

\* C5: the body of every 200 response is exactly the samples of the data that
\* request fetched: all of them, no sample of another serial number and no
\* light beyond its own; the registry holds nothing of the scrape before.
C5_NoAccumulation ==
    \A r \in Reqs :
        status[r] = StatusOK =>
            /\ body[r] = scrapeDevice(data[r])
            /\ Cardinality(body[r]) = 1 + 3 * Len(data[r].Lights)
            /\ \A o \in body[r] :
                  /\ SerialOf(o) = data[r].Device.SerialNumber
                  /\ o.name # klInfo =>
                        \E i \in 1..Len(data[r].Lights) : o.labels[1] = LightNames[i]

\* The device without lights has been rendered after the two-light device was: the
\* earlier request is finished, the later one still holds the lock.
C5_Witness ==
    \E r1, r2 \in Reqs :
        /\ pc[r1] = "done" /\ status[r1] = StatusOK /\ data[r1] = TestData
        /\ pc[r2] = "rendered" /\ data[r2] = BareData
        /\ gathered = body[r2]

\* The lines the test matches against a body, for the data d.
TestLines(d) ==
    {[name |-> "keylight_info", value |-> 1,
      labels |-> <<d.Device.FirmwareVersion, d.Device.DisplayName,
                   d.Device.SerialNumber>>]}
    \cup UNION {
        {[name |-> "keylight_light_on",
          value |-> IF d.Lights[i].On THEN 1 ELSE 0,
          labels |-> <<LightNames[i], d.Device.SerialNumber>>],
         [name |-> "keylight_light_brightness_percent",
          value |-> d.Lights[i].Brightness,
          labels |-> <<LightNames[i], d.Device.SerialNumber>>],
         [name |-> "keylight_light_color_temperature_kelvin",
          value |-> d.Lights[i].Temperature,
          labels |-> <<LightNames[i], d.Device.SerialNumber>>]}
        : i \in 1..Len(d.Lights)}

\* C9: every 200 body holds every line the test expects for the data fetched:
\* keylight_info, and per light keylight_light_on,
\* keylight_light_brightness_percent and
\* keylight_light_color_temperature_kelvin.
C9_TestLinesPresent ==
    \A r \in Reqs : status[r] = StatusOK => TestLines(data[r]) \subseteq body[r]

\* C10: the mutex is only ever held by a request still inside ServeHTTP with
\* its deferred Unlock to come, on return as on panic, and under fair
\* scheduling every request whose Fetch returned data reaches the end of
\* ServeHTTP.
C10_LockAlwaysReleased ==
    /\ [](mu # 0 => InCritical(mu))
    /\ \A r \in Reqs : (pc[r] = "fetched") ~> (pc[r] = "done")

\* A request is panicking inside the critical section while another waits for
\* the lock.
C10_Witness ==
    \E r1, r2 \in Reqs : pc[r1] = "panicking" /\ mu = r1 /\ pc[r2] = "fetched"

=============================================================================
